---- MODULE Spec2Model ----
(***************************************************************************)
(* The SD-card bus decoder of "SDCard Data Reader": bitvector.py (the      *)
(* BitVector class) and sdcard_data_reader.py (the loop of main() over the *)
(* rows of the logic-analyzer CSV file).  One action is one iteration of   *)
(* the loop "for row in sddata".                                           *)
(*                                                                         *)
(* Python integers are unbounded and TLC's are 32 bits wide, so the value  *)
(* of a field wider than 16 bits is never computed: such a field is kept   *)
(* as its list of bits, and only whether int(binstr, 2) raises is decided. *)
(***************************************************************************)
EXTENDS Integers, Sequences, FiniteSets, TLC

(***************************************************************************)
(* Bounds of the model (not program constants).                            *)
(***************************************************************************)
\* frames a stream may start
MaxFrames == 3
\* rows of a stream that are malformed (a clk or cmd value other than 0 and 1)
\* or out of step (no frame start, no clock toggle of a frame)
MaxSlack == 1
\* idle rows (clk = 0, cmd = 1) at the head of the end-to-end scenario
MaxIdleRows == 4
\* elements of a vector the BitVector calls are tried on
MaxLen == 3
\* the integers from_int is tried on are -MaxInt..MaxInt
MaxInt == 9

(***************************************************************************)
(* Program constants.                                                      *)
(***************************************************************************)
\* sdcard_data_reader.py:31, the default of --sample_rate, in nanoseconds
SampleRate == 10
\* sdcard_data_reader.py:111 and :113
LongFrame == 136
ShortFrame == 48
\* sdcard_data_reader.py:125, APP_CMD
AppCmd == 55

Bit == {0, 1}
\* the value standing for every integer other than 0 and 1 a CSV cell can hold
BadBit == 2
\* a local of main() that no statement has assigned yet
Unbound == -1

Max(a, b) == IF a > b THEN a ELSE b
Min(a, b) == IF a < b THEN a ELSE b

(***************************************************************************)
(* bitvector.py                                                            *)
(***************************************************************************)
\* BitVector.validate: TRUE when it returns, FALSE when it raises ValueError
validate(bit) == bit \in {0, 1}

\* InitRaises with only the first element validated
InitRaises_FirstOnly(vector_list) == vector_list # <<>> /\ ~validate(vector_list[1])

\* BitVector.__init__ raises when validate raises on an element
InitRaises(vector_list) == \E i \in 1..Len(vector_list) : ~validate(vector_list[i])

\* BitVector.__init__ when it returns: the object's two attributes
BitVector(vector_list, downto_val) == [vlist |-> vector_list, downto |-> downto_val]

\* BitVector.append
append(self, bit) == [self EXCEPT !.vlist = Append(@, bit)]

\* BitVector.length
length(self) == Len(self.vlist)

\* Python's list[start:stop] on a list held as a 1-based sequence: negative
\* indices count from the end, both are clamped to the list
PySlice(list, start, stop) ==
    LET n == Len(list)
        a == IF start < 0 THEN Max(start + n, 0) ELSE Min(start, n)
        b == IF stop < 0 THEN Max(stop + n, 0) ELSE Min(stop, n)
    IN  IF a < b THEN SubSeq(list, a + 1, b) ELSE <<>>

\* SliceList with vlen one short
SliceList_ShortLen(self, start, stop) ==
    IF self.downto
    THEN LET vstart == length(self) - start - 1
             vlen == start - stop
             vstop == vstart + vlen
         IN  PySlice(self.vlist, vstart, vstop)
    ELSE PySlice(self.vlist, start, stop + 1)

\* SliceList with vstart one past the bit asked for
SliceList_LateStart(self, start, stop) ==
    IF self.downto
    THEN LET vstart == length(self) - start
             vlen == start - stop + 1
             vstop == vstart + vlen
         IN  PySlice(self.vlist, vstart, vstop)
    ELSE PySlice(self.vlist, start, stop + 1)

\* SliceList with the list position taken from the low index
SliceList_FromLow(self, start, stop) ==
    IF self.downto
    THEN LET vstart == length(self) - stop - 1
             vlen == start - stop + 1
             vstop == vstart + vlen
         IN  PySlice(self.vlist, vstart, vstop)
    ELSE PySlice(self.vlist, start, stop + 1)

\* the list BitVector.slice hands to the constructor
SliceList(self, start, stop) ==
    IF self.downto
    THEN LET vstart == length(self) - start - 1
             vlen == start - stop + 1
             vstop == vstart + vlen
         IN  PySlice(self.vlist, vstart, vstop)
    ELSE PySlice(self.vlist, start, stop + 1)

\* BitVector.slice raises when the constructor does
SliceRaises(self, start, stop) == InitRaises(SliceList(self, start, stop))

\* BitVector.slice when it returns
slice(self, start, stop) == BitVector(SliceList(self, start, stop), self.downto)

\* "{}".format(b) for an element b of the list
Digit(b) == IF b = 0 THEN "0" ELSE IF b = 1 THEN "1" ELSE "2"

\* BitVector.binstr: the digits of the elements, in list order
binstr(self) == [i \in 1..Len(self.vlist) |-> Digit(self.vlist[i])]

\* int(s, 2) raises ValueError on the empty string and on a digit not 0 or 1
IntRaises(s) == s = <<>> \/ \E i \in 1..Len(s) : s[i] \notin {"0", "1"}

\* int(s, 2) when it returns, most significant digit first
RECURSIVE ParseBin(_)
ParseBin(s) ==
    IF s = <<>> THEN 0
    ELSE 2 * ParseBin(SubSeq(s, 1, Len(s) - 1)) + (IF s[Len(s)] = "1" THEN 1 ELSE 0)

\* BitVector.value raises when int(binstr, 2) does
ValueRaises(self) == IntRaises(binstr(self))

\* BitVector.value when it returns (fields of at most 16 bits)
value(self) == ParseBin(binstr(self))

\* leading "0" digits removed: the one numeral of each integer int(s, 2) returns
RECURSIVE StripZeros(_)
StripZeros(s) == IF s # <<>> /\ s[1] = "0" THEN StripZeros(Tail(s)) ELSE s

\* BitVector.value of a field wider than 16 bits, as the numeral of the integer
WideValue(self) == StripZeros(binstr(self))

\* "{:b}".format(value): the shortest binary numeral, "-" first when negative
RECURSIVE FormatB(_)
FormatB(n) ==
    IF n < 0 THEN <<"-">> \o FormatB(-n)
    ELSE IF n < 2 THEN <<Digit(n)>>
    ELSE Append(FormatB(n \div 2), Digit(n % 2))

\* int(str) of one character of the numeral raises ValueError on "-"
FromIntRaises(n) == \E i \in 1..Len(FormatB(n)) : FormatB(n)[i] \notin {"0", "1"}

\* from_int with binlist in the reverse order
from_int_Reversed(n) ==
    BitVector([i \in 1..Len(FormatB(n)) |->
                  IF FormatB(n)[Len(FormatB(n)) + 1 - i] = "1" THEN 1 ELSE 0], TRUE)

\* BitVector.from_int when it returns: binlist, handed to the constructor
from_int(n) ==
    BitVector([i \in 1..Len(FormatB(n)) |-> IF FormatB(n)[i] = "1" THEN 1 ELSE 0], TRUE)

(***************************************************************************)
(* sdcard_data_reader.py: the state of main()                              *)
(***************************************************************************)
VARIABLES
    pc,                 \* "loop", "done", or the exception that ended main()
    row,                \* <<clk, cmd>> of the row being processed (<<>>: none yet)
    current_state,      \* States.idle or States.acquire
    last_clk,
    last_cmd,
    current_cmd_idx,
    line_count,
    last_clk_edge_line,
    last_freq,
    clock_freq,
    bit_count,
    max_bit,
    vector,
    printed,            \* what the iteration printed: <<>> or one record
    nframes,            \* frames printed so far
    lastframe,          \* kind and command index of the last frame printed
    slack,              \* input file: well-formed rows out of step so far
    badrows,            \* input file: malformed rows so far
    notes,              \* history: the last clock rate printed (<<>>: none yet)
    samples,            \* history: cmd of the rows with a rising clock edge since
                        \* the last falling edge of cmd seen in States.idle
    obj,                \* calls on a BitVector: the object the caller holds
    call,               \* calls on a BitVector: the last call and its arguments
    result              \* calls on a BitVector: what the last call returned or raised

progvars == <<current_state, last_clk, last_cmd, current_cmd_idx, line_count,
              last_clk_edge_line, last_freq, clock_freq, bit_count, max_bit, vector>>
mainvars == <<pc, row, progvars, printed, nframes, lastframe, slack, badrows,
              notes, samples>>
unitvars == <<obj, call, result>>
vars == <<mainvars, unitvars>>

\* class States
idle == "idle"
acquire == "acquire"

NoFrame == [kind |-> "none", cmd_idx |-> 0]
NoCall == [op |-> "none", args |-> <<>>]
NoResult == [kind |-> "none"]

\* lines 42-51; bit_count, max_bit and vector are not assigned yet and are
\* assigned before they are read, clock_freq is read at line 92
Start ==
    /\ pc = "loop"
    /\ row = <<>>
    /\ current_state = idle
    /\ last_clk = 0
    /\ last_cmd = 1
    /\ current_cmd_idx = 0
    /\ line_count = 2
    /\ last_clk_edge_line = 0
    /\ last_freq = 0
    /\ clock_freq = Unbound
    /\ bit_count = Unbound
    /\ max_bit = Unbound
    /\ vector = BitVector(<<>>, TRUE)
    /\ printed = <<>>
    /\ nframes = 0
    /\ lastframe = NoFrame
    /\ slack = 0
    /\ badrows = 0
    /\ notes = <<>>
    /\ samples = <<>>

\* main() makes no call on a BitVector other than its own
Init ==
    /\ Start
    /\ obj = BitVector(<<>>, TRUE)
    /\ call = NoCall
    /\ result = NoResult

\* lines 58-70
rising_edge_clk(clk) == clk = 1 /\ last_clk = 0
falling_edge_clk(clk) == ~rising_edge_clk(clk) /\ clk = 0 /\ last_clk = 1
rising_edge_cmd(cmd) == cmd = 1 /\ last_cmd = 0

\* falling_edge_cmd taken from the level of the line, not from its edge
falling_edge_cmd_Level(cmd) == cmd = 0

falling_edge_cmd(cmd) == ~rising_edge_cmd(cmd) /\ cmd = 0 /\ last_cmd = 1

\* line 74
edge_to_edge == line_count - last_clk_edge_line

\* line 76 raises ZeroDivisionError when the product is 0.0
FreqRaises(e2e) == e2e * SampleRate = 0

\* line 76: 1.0 / (e2e * sample_rate * 1e-9), in whole Hz
ClockFreq(e2e) == 1000000000 \div (e2e * SampleRate)

\* MaxBit with command index 10 left out of the long-response commands
MaxBit_NoCmd10(cmd_idx) == IF cmd_idx \in {2, 9} THEN LongFrame ELSE ShortFrame

\* lines 110-113
MaxBit(cmd_idx) == IF cmd_idx \in {2, 9, 10} THEN LongFrame ELSE ShortFrame

(***************************************************************************)
(* Lines 115-200: the end of a transaction.  v is the vector, mb is        *)
(* max_bit and cur is current_cmd_idx when bit_count reaches max_bit.      *)
(***************************************************************************)
\* line 118
start_txrx(v) == slice(v, length(v) - 1, length(v) - 2)

\* a slice of v, or the value of that slice, raises ValueError
FieldRaises(v, start, stop) ==
    SliceRaises(v, start, stop) \/ ValueRaises(slice(v, start, stop))

\* line 120: the test that sends the frame to the Command branch
IsCommand(v) == value(start_txrx(v)) = 1

\* lines 118-200 raise ValueError before anything is printed
ClassifyRaises(v, mb) ==
    \/ FieldRaises(v, length(v) - 1, length(v) - 2)
    \/ IF IsCommand(v)
       THEN \/ FieldRaises(v, 45, 40) \/ FieldRaises(v, 39, 8) \/ FieldRaises(v, 7, 0)
            \/ ValueRaises(v)
       ELSE IF mb # LongFrame
       THEN \/ FieldRaises(v, 45, 40) \/ FieldRaises(v, 39, 8) \/ FieldRaises(v, 7, 0)
            \/ value(slice(v, 45, 40)) = 3
                 /\ (FieldRaises(v, 39, 24) \/ FieldRaises(v, 23, 8))
            \/ ValueRaises(v)
       ELSE \/ FieldRaises(v, 135, 134) \/ FieldRaises(v, 133, 128)
            \/ FieldRaises(v, 127, 0)
            \/ ValueRaises(v)

\* CommandRecord with the argument sliced one bit too far down
CommandRecord_WideArgument(v, cur) ==
    [kind |-> "Command",
     label |-> IF cur # AppCmd THEN "CMD" ELSE "ACMD",
     raw |-> WideValue(v),
     start |-> value(start_txrx(v)),
     cmd_idx |-> value(slice(v, 45, 40)),
     argument |-> WideValue(slice(v, 39, 7)),
     crc7_stop |-> value(slice(v, 7, 0))]

\* CommandRecord with the label picked from the frame's own command index
CommandRecord_OwnIndex(v, cur) ==
    [kind |-> "Command",
     label |-> IF value(slice(v, 45, 40)) # AppCmd THEN "CMD" ELSE "ACMD",
     raw |-> WideValue(v),
     start |-> value(start_txrx(v)),
     cmd_idx |-> value(slice(v, 45, 40)),
     argument |-> WideValue(slice(v, 39, 8)),
     crc7_stop |-> value(slice(v, 7, 0))]

\* lines 122-144: the arguments of the Command print; line 125 picks the label
CommandRecord(v, cur) ==
    [kind |-> "Command",
     label |-> IF cur # AppCmd THEN "CMD" ELSE "ACMD",
     raw |-> WideValue(v),
     start |-> value(start_txrx(v)),
     cmd_idx |-> value(slice(v, 45, 40)),
     argument |-> WideValue(slice(v, 39, 8)),
     crc7_stop |-> value(slice(v, 7, 0))]

\* ShortResponseRecord with the card status sliced one bit too high
ShortResponseRecord_ShiftedStatus(v) ==
    LET cmd_idx == slice(v, 45, 40)
        common == [raw |-> WideValue(v),
                   start |-> value(start_txrx(v)),
                   cmd_idx |-> value(cmd_idx),
                   crc7_stop |-> value(slice(v, 7, 0))]
    IN  IF value(cmd_idx) = 63
        THEN [kind |-> "R3", argument |-> WideValue(slice(v, 39, 8))] @@ common
        ELSE IF value(cmd_idx) = 3
        THEN [kind |-> "R6",
              new_rca |-> value(slice(v, 39, 24)),
              card_status |-> value(slice(v, 24, 9))] @@ common
        ELSE [kind |-> "R1", argument |-> WideValue(slice(v, 39, 8))] @@ common

\* lines 151-186: the arguments of the R3, R6 or R1 print
ShortResponseRecord(v) ==
    LET cmd_idx == slice(v, 45, 40)
        common == [raw |-> WideValue(v),
                   start |-> value(start_txrx(v)),
                   cmd_idx |-> value(cmd_idx),
                   crc7_stop |-> value(slice(v, 7, 0))]
    IN  IF value(cmd_idx) = 63
        THEN [kind |-> "R3", argument |-> WideValue(slice(v, 39, 8))] @@ common
        ELSE IF value(cmd_idx) = 3
        THEN [kind |-> "R6",
              new_rca |-> value(slice(v, 39, 24)),
              card_status |-> value(slice(v, 23, 8))] @@ common
        ELSE [kind |-> "R1", argument |-> WideValue(slice(v, 39, 8))] @@ common

\* LongResponseRecord with the top bit of the CID/CSD left out
LongResponseRecord_NarrowCid(v) ==
    [kind |-> "R2",
     raw |-> WideValue(v),
     start |-> value(slice(v, 135, 134)),
     cmd_idx |-> value(slice(v, 133, 128)),
     cid_csr |-> WideValue(slice(v, 126, 0))]

\* lines 189-199: the arguments of the R2 print
LongResponseRecord(v) ==
    [kind |-> "R2",
     raw |-> WideValue(v),
     start |-> value(slice(v, 135, 134)),
     cmd_idx |-> value(slice(v, 133, 128)),
     cid_csr |-> WideValue(slice(v, 127, 0))]

\* FrameRecord with the R3 test made before the test of the frame length
FrameRecord_IndexFirst(v, mb, cur) ==
    IF IsCommand(v) THEN CommandRecord(v, cur)
    ELSE IF mb # LongFrame \/ value(slice(v, 45, 40)) = 63 THEN ShortResponseRecord(v)
    ELSE LongResponseRecord(v)

\* lines 120-200: what is printed for v
FrameRecord(v, mb, cur) ==
    IF IsCommand(v) THEN CommandRecord(v, cur)
    ELSE IF mb # LongFrame THEN ShortResponseRecord(v)
    ELSE LongResponseRecord(v)

\* NextCmdIdx with the index of a short response stored as well
NextCmdIdx_ResponseSets(v, mb, cur) ==
    IF IsCommand(v) \/ mb # LongFrame THEN value(slice(v, 45, 40)) ELSE 0

\* lines 145 and 200: current_cmd_idx after the frame
NextCmdIdx(v, mb, cur) ==
    IF IsCommand(v) THEN value(slice(v, 45, 40))
    ELSE IF mb # LongFrame THEN cur
    ELSE 0

(***************************************************************************)
(* Lines 52-207: one iteration of "for row in sddata", for a row whose     *)
(* cells parse to clk and cmd.  An exception ends main(): the statements   *)
(* before the raise have run, the ones after it have not.                  *)
(***************************************************************************)
\* lines 73-78: clock_freq after the row
FreqAfter(clk) == IF rising_edge_clk(clk) THEN ClockFreq(edge_to_edge) ELSE clock_freq

\* line 76 raises on this row
ZeroDivision(clk) == rising_edge_clk(clk) /\ FreqRaises(edge_to_edge)

\* line 92 reads clock_freq before any rising clock edge has assigned it
UnboundRead(clk, cmd) == falling_edge_cmd(cmd) /\ FreqAfter(clk) = Unbound

\* ReportsFreq without the comparison with last_freq
ReportsFreq_EveryStart(clk, cmd) == falling_edge_cmd(cmd) /\ ~UnboundRead(clk, cmd)

\* lines 92-94: the clock rate is printed
ReportsFreq(clk, cmd) ==
    falling_edge_cmd(cmd) /\ ~UnboundRead(clk, cmd) /\ FreqAfter(clk) # last_freq

\* Trailing with the line counted in States.idle only
Trailing_StalledCount(raised, clk, cmd) ==
    /\ line_count' = IF raised \/ current_state = acquire THEN line_count
                      ELSE line_count + 1
    /\ last_clk' = IF raised THEN last_clk ELSE clk
    /\ last_cmd' = IF raised THEN last_cmd ELSE cmd

\* Trailing with last_cmd stored in States.idle only
Trailing_KeepsCmd(raised, clk, cmd) ==
    /\ line_count' = IF raised THEN line_count ELSE line_count + 1
    /\ last_clk' = IF raised THEN last_clk ELSE clk
    /\ last_cmd' = IF raised \/ current_state = acquire THEN last_cmd ELSE cmd

\* lines 205-207, reached when nothing was raised
Trailing(raised, clk, cmd) ==
    /\ line_count' = IF raised THEN line_count ELSE line_count + 1
    /\ last_clk' = IF raised THEN last_clk ELSE clk
    /\ last_cmd' = IF raised THEN last_cmd ELSE cmd

\* lines 52-94 and 205-207: a row read in States.idle
IdleRow(clk, cmd) ==
    LET zdiv == ZeroDivision(clk)
        fall == ~zdiv /\ falling_edge_cmd(cmd)
        unbound == ~zdiv /\ UnboundRead(clk, cmd)
        report == ~zdiv /\ ReportsFreq(clk, cmd)
    IN  /\ pc = "loop"
        /\ current_state = idle
        /\ row' = <<clk, cmd>>
        /\ pc' = IF zdiv THEN "ZeroDivisionError"
                 ELSE IF unbound THEN "UnboundLocalError" ELSE "loop"
        /\ clock_freq' = IF zdiv THEN clock_freq ELSE FreqAfter(clk)
        /\ last_clk_edge_line' =
               IF rising_edge_clk(clk) /\ ~zdiv THEN line_count ELSE last_clk_edge_line
        /\ bit_count' = IF zdiv THEN bit_count ELSE 0
        /\ vector' = IF fall THEN BitVector(<<>>, TRUE) ELSE vector
        /\ current_state' = IF fall THEN acquire ELSE current_state
        /\ last_freq' = IF report THEN FreqAfter(clk) ELSE last_freq
        /\ printed' = IF report
                      THEN <<[kind |-> "ClockRate", freq |-> FreqAfter(clk)]>>
                      ELSE <<>>
        /\ Trailing(zdiv \/ unbound, clk, cmd)
        /\ UNCHANGED <<max_bit, current_cmd_idx, nframes, lastframe>>

\* Latched with the bit taken on the falling clock edge
Latched_FallingEdge(clk, cmd) ==
    IF falling_edge_clk(clk) THEN append(vector, cmd) ELSE vector

\* Latched with the bit appended twice
Latched_Twice(clk, cmd) ==
    IF rising_edge_clk(clk) THEN append(append(vector, cmd), cmd) ELSE vector

\* lines 103-105: the vector and the bit counter after the row
Latched(clk, cmd) == IF rising_edge_clk(clk) THEN append(vector, cmd) ELSE vector

\* Counted with one bit counted on every row
Counted_EveryRow(clk) == bit_count + 1

Counted(clk) == IF rising_edge_clk(clk) THEN bit_count + 1 ELSE bit_count

\* Complete with the end of the transaction one bit early
Complete_OneBitEarly(clk) == Counted(clk) = MaxBit(current_cmd_idx) - 1

\* line 115
Complete(clk) == Counted(clk) = MaxBit(current_cmd_idx)

\* lines 52-78, 96-207: a row read in States.acquire
AcquireRow(clk, cmd) ==
    LET zdiv == ZeroDivision(clk)
        mb == MaxBit(current_cmd_idx)
        v == Latched(clk, cmd)
        verr == ~zdiv /\ Complete(clk) /\ ClassifyRaises(v, mb)
        emit == ~zdiv /\ Complete(clk) /\ ~ClassifyRaises(v, mb)
        rec == FrameRecord(v, mb, current_cmd_idx)
    IN  /\ pc = "loop"
        /\ current_state = acquire
        /\ row' = <<clk, cmd>>
        /\ pc' = IF zdiv THEN "ZeroDivisionError"
                 ELSE IF verr THEN "ValueError" ELSE "loop"
        /\ clock_freq' = IF zdiv THEN clock_freq ELSE FreqAfter(clk)
        /\ last_clk_edge_line' =
               IF rising_edge_clk(clk) /\ ~zdiv THEN line_count ELSE last_clk_edge_line
        /\ vector' = IF zdiv THEN vector ELSE v
        /\ bit_count' = IF zdiv THEN bit_count ELSE Counted(clk)
        /\ max_bit' = IF zdiv THEN max_bit ELSE mb
        /\ printed' = IF emit THEN <<rec>> ELSE <<>>
        /\ current_cmd_idx' =
               IF emit THEN NextCmdIdx(v, mb, current_cmd_idx) ELSE current_cmd_idx
        /\ current_state' = IF emit THEN idle ELSE current_state
        /\ nframes' = IF emit THEN nframes + 1 ELSE nframes
        /\ lastframe' = IF emit THEN [kind |-> rec.kind, cmd_idx |-> rec.cmd_idx]
                        ELSE lastframe
        /\ Trailing(zdiv \/ verr, clk, cmd)
        /\ UNCHANGED last_freq

\* line 52: sddata has no more rows, main() returns; nothing is printed
\* after the loop
EndOfStream ==
    /\ pc = "loop"
    /\ pc' = "done"
    /\ printed' = <<>>
    /\ UNCHANGED <<row, progvars, nframes, lastframe, slack, badrows>>
    /\ UNCHANGED <<notes, samples, unitvars>>

(***************************************************************************)
(* The input file: the streams of rows the model feeds to the loop.  A     *)
(* frame on the command line is one of a catalogue of frames.  At most     *)
(* MaxSlack rows are malformed or out of step, and the rows out of step    *)
(* come during the first frame or between frames.  The file may end after  *)
(* any row.                                                                *)
(***************************************************************************)
RECURSIVE Bits(_, _)
\* the w-bit binary numeral of n, most significant bit first
Bits(n, w) == IF w = 0 THEN <<>> ELSE Append(Bits(n \div 2, w - 1), n % 2)

Fill(b, w) == [i \in 1..w |-> b]

\* a 48-bit frame: start + transfer, index, argument (two halves), crc7 + stop
Short(top, idx, hi, lo, crc) ==
    Bits(top, 2) \o Bits(idx, 6) \o Bits(hi, 16) \o Bits(lo, 16) \o Bits(crc, 8)

\* a 136-bit frame: bits 135..134, 133..128, 127..46 (one repeated bit), 45..0
Long(top, res, fill, idx, hi, lo, crc) ==
    Bits(top, 2) \o Bits(res, 6) \o Fill(fill, 82)
        \o Bits(idx, 6) \o Bits(hi, 16) \o Bits(lo, 16) \o Bits(crc, 8)

\* f with the element at list position i replaced by a malformed value
Spoil(f, i) == [f EXCEPT ![i] = BadBit]

ShortFrames ==
    { Short(1, 2, 0, 0, 1), Short(1, 9, 0, 0, 1), Short(1, 10, 0, 0, 1),
      Short(1, 6, 0, 0, 1), Short(1, 6, 0, 0, 0), Short(1, 55, 0, 0, 1),
      Short(1, 41, 16432, 1, 119),
      Short(0, 63, 255, 32768, 255), Short(0, 3, 4660, 1312, 123),
      Short(0, 9, 0, 288, 131), Short(2, 3, 4660, 1312, 123),
      Spoil(Short(1, 6, 0, 0, 1), 20), Spoil(Short(0, 9, 0, 288, 131), 48) }

LongFrames ==
    { Long(0, 63, 0, 3, 0, 0, 1), Long(0, 3, 1, 63, 4660, 1312, 123),
      Long(1, 63, 0, 2, 0, 0, 1), Long(2, 63, 1, 3, 0, 0, 1),
      Spoil(Long(0, 63, 0, 3, 0, 0, 1), 100) }

Frames(mb) == IF mb = LongFrame THEN LongFrames ELSE ShortFrames

\* list is the beginning of a frame of the catalogue
Viable(list, mb) ==
    \E f \in Frames(mb) : Len(list) <= Len(f) /\ SubSeq(f, 1, Len(list)) = list

CellValues == Bit \cup {BadBit}

\* a row of a regular capture: the clock toggles on every row; the command
\* line starts a frame, or during a frame changes only where a bit is latched
Regular(clk, cmd) ==
    /\ clk \in Bit /\ last_clk \in Bit /\ clk # last_clk
    /\ IF current_state = idle THEN falling_edge_cmd(cmd)
       ELSE rising_edge_clk(clk) \/ cmd = last_cmd \/ last_cmd \notin Bit

Malformed(clk, cmd) == clk \notin Bit \/ cmd \notin Bit

\* the next row of the file is <<clk, cmd>>
Feed(clk, cmd) ==
    /\ (current_state = acquire /\ rising_edge_clk(clk))
           => Viable(Append(vector.vlist, cmd), MaxBit(current_cmd_idx))
    /\ (current_state = idle /\ falling_edge_cmd(cmd)) => nframes < MaxFrames
    /\ (Malformed(clk, cmd) \/ ~Regular(clk, cmd)) => slack + badrows < MaxSlack
    /\ ~Regular(clk, cmd) => (nframes = 0 \/ current_state = idle)
    /\ slack' = IF ~Malformed(clk, cmd) /\ ~Regular(clk, cmd) THEN slack + 1 ELSE slack
    /\ badrows' = IF Malformed(clk, cmd) THEN badrows + 1 ELSE badrows

\* the clk and cmd cells of the row before this one; before the first row
\* the lines are at rest
PrevClk == IF row = <<>> THEN 0 ELSE row[1]
PrevCmd == IF row = <<>> THEN 1 ELSE row[2]

\* the histories after the row <<clk, cmd>>, kept from the cells of the file
\* and from what the iteration printed
Observe(clk, cmd) ==
    /\ notes' = IF printed' # <<>> /\ printed'[1].kind = "ClockRate"
                 THEN <<printed'[1].freq>>
                 ELSE notes
    /\ samples' = IF current_state = idle
                   THEN (IF PrevCmd = 1 /\ cmd = 0 THEN <<>> ELSE samples)
                   ELSE (IF PrevClk = 0 /\ clk = 1 THEN Append(samples, cmd) ELSE samples)
    /\ UNCHANGED unitvars

Idle ==
    \E clk \in CellValues, cmd \in CellValues :
        Feed(clk, cmd) /\ IdleRow(clk, cmd) /\ Observe(clk, cmd)

Acquire ==
    \E clk \in CellValues, cmd \in CellValues :
        Feed(clk, cmd) /\ AcquireRow(clk, cmd) /\ Observe(clk, cmd)

Next == Idle \/ Acquire \/ EndOfStream

Spec == Init /\ [][Next]_vars

(***************************************************************************)
(* The end-to-end scenario: command = 1 and clock = 0 for several rows, a  *)
(* falling edge of the command line, then the 48 bits of CMD6 with         *)
(* argument 0 and crc7 + stop = 1, one on each rising clock edge; the file *)
(* ends there.                                                             *)
(***************************************************************************)
ScenarioFrame == Short(1, 6, 0, 0, 1)

\* the next row of the scenario's file is <<clk, cmd>>
ScenarioFeed(clk, cmd) ==
    /\ nframes = 0
    /\ IF current_state = idle
       THEN \/ clk = 0 /\ cmd = 1 /\ line_count < 2 + MaxIdleRows
            \/ cmd = 0 /\ line_count >= 4
       ELSE /\ clk # last_clk
            /\ rising_edge_clk(clk) => cmd = ScenarioFrame[bit_count + 1]
    /\ UNCHANGED <<slack, badrows>>

ScenarioIdle ==
    \E clk \in Bit, cmd \in Bit :
        ScenarioFeed(clk, cmd) /\ IdleRow(clk, cmd) /\ Observe(clk, cmd)

ScenarioAcquire ==
    \E clk \in Bit, cmd \in Bit :
        ScenarioFeed(clk, cmd) /\ AcquireRow(clk, cmd) /\ Observe(clk, cmd)

ScenarioEnd == nframes = 1 /\ EndOfStream

ScenarioNext == ScenarioIdle \/ ScenarioAcquire \/ ScenarioEnd

SpecScenario == Init /\ [][ScenarioNext]_vars

(***************************************************************************)
(* The rows with their data cell: the end-to-end scenario's clock and      *)
(* command cells, with any data nibble in each row.                        *)
(***************************************************************************)
\* line 55: the values int(row["data"], 16) returns for one hexadecimal digit
DataValues == 0..15

\* Iteration with the low bit of data latched in place of cmd
Iteration_LatchesData(clk, cmd, data) ==
    IF current_state = idle THEN IdleRow(clk, cmd) ELSE AcquireRow(clk, data % 2)

\* lines 52-207: one iteration, for a row whose cells parse to clk, cmd and
\* data; line 55 assigns data and no line reads it
Iteration(clk, cmd, data) ==
    IF current_state = idle THEN IdleRow(clk, cmd) ELSE AcquireRow(clk, cmd)

DataRow ==
    \E clk \in Bit, cmd \in Bit, data \in DataValues :
        ScenarioFeed(clk, cmd) /\ Iteration(clk, cmd, data) /\ Observe(clk, cmd)

DataNext == DataRow \/ ScenarioEnd

SpecData == Init /\ [][DataNext]_vars

(***************************************************************************)
(* Calls on a BitVector, one at a time, by a caller that holds one object: *)
(* it makes the object with the constructor or with from_int, then calls   *)
(* append, slice, value and length on it, with arguments drawn from small  *)
(* sets.  main() is not running.                                           *)
(***************************************************************************)
\* the lists handed to the constructor
Lists == UNION {[1..n -> CellValues] : n \in 0..MaxLen}

\* the indices handed to slice
Indices == -1..(MaxLen + 1)

Raised == [kind |-> "ValueError"]
Returned(k, v) == [kind |-> k, val |-> v]

\* before the caller's first call; obj is BitVector() or
\* BitVector(downto_val=False) if that call is not a construction
VectorInit ==
    /\ Start
    /\ \E downto_val \in BOOLEAN : obj = BitVector(<<>>, downto_val)
    /\ call = NoCall
    /\ result = NoResult

\* obj = BitVector(vector_list, downto_val)
New(vector_list, downto_val) ==
    /\ call = NoCall
    /\ call' = [op |-> "new", args |-> <<vector_list, downto_val>>]
    /\ IF InitRaises(vector_list)
       THEN result' = Raised /\ obj' = obj
       ELSE /\ result' = Returned("vector", BitVector(vector_list, downto_val))
            /\ obj' = BitVector(vector_list, downto_val)
    /\ UNCHANGED mainvars

\* obj = BitVector.from_int(n)
FromInt(n) ==
    /\ call = NoCall
    /\ call' = [op |-> "from_int", args |-> <<n>>]
    /\ IF FromIntRaises(n) \/ InitRaises(from_int(n).vlist)
       THEN result' = Raised /\ obj' = obj
       ELSE result' = Returned("vector", from_int(n)) /\ obj' = from_int(n)
    /\ UNCHANGED mainvars

\* obj.append(bit)
CallAppend(bit) ==
    /\ length(obj) < MaxLen
    /\ call' = [op |-> "append", args |-> <<bit>>]
    /\ obj' = append(obj, bit)
    /\ result' = Returned("None", 0)
    /\ UNCHANGED mainvars

\* obj.slice(start, stop)
CallSlice(start, stop) ==
    /\ call' = [op |-> "slice", args |-> <<start, stop>>]
    /\ result' = IF SliceRaises(obj, start, stop) THEN Raised
                  ELSE Returned("vector", slice(obj, start, stop))
    /\ UNCHANGED <<obj, mainvars>>

\* obj.value
CallValue ==
    /\ call' = [op |-> "value", args |-> <<>>]
    /\ result' = IF ValueRaises(obj) THEN Raised ELSE Returned("int", value(obj))
    /\ UNCHANGED <<obj, mainvars>>

\* obj.length
CallLength ==
    /\ call' = [op |-> "length", args |-> <<>>]
    /\ result' = Returned("int", length(obj))
    /\ UNCHANGED <<obj, mainvars>>

Construct == \E vector_list \in Lists, downto_val \in BOOLEAN : New(vector_list, downto_val)
Convert == \E n \in (-MaxInt)..MaxInt : FromInt(n)
Extend == \E bit \in CellValues : CallAppend(bit)
Cut == \E start \in Indices, stop \in Indices : CallSlice(start, stop)

VectorNext == Construct \/ Convert \/ Extend \/ Cut \/ CallValue \/ CallLength

SpecVector == VectorInit /\ [][VectorNext]_vars

(***************************************************************************)
(* The properties.  Bit index i of a frame is list position Len - i        *)
(* (1-based), so the first bit latched has the highest index.              *)
(***************************************************************************)
\* the bit of index i of a list of bits
BitAt(list, i) == list[Len(list) - i]

\* the bits of indices high down to low, highest first
Range(list, high, low) == [k \in 1..(high - low + 1) |-> BitAt(list, high - k + 1)]

RECURSIVE Number(_)
\* the integer a list of at most 16 bits denotes, most significant bit first
Number(list) ==
    IF list = <<>> THEN 0 ELSE 2 * Number(SubSeq(list, 1, Len(list) - 1)) + list[Len(list)]

\* the numeral (no leading zero) of the integer a list of bits denotes
Numeral(list) == StripZeros([k \in 1..Len(list) |-> IF list[k] = 1 THEN "1" ELSE "0"])

\* every element of the list is 0 or 1
AllBits(list) == \A k \in 1..Len(list) : list[k] \in Bit

\* the two top bits of the vector, as a number
TopValue == Number(Range(vector.vlist, Len(vector.vlist) - 1, Len(vector.vlist) - 2))

\* the classification of the completed vector raised
ClassificationFailed == pc = "ValueError"

\* the iteration just finished printed a decoded frame
FramePrinted == printed # <<>> /\ printed[1].kind # "ClockRate"

\* the frame length that follows frame f
LengthAfter(f) ==
    IF f.kind = "Command" /\ f.cmd_idx \in {2, 9, 10} THEN 136 ELSE 48

\* C1: the frame assembled after a decoded Command with index 2, 9 or 10 is
\* classified (printed, or its classification raises) when exactly 136 bits
\* have been accumulated, and the frame after any other Command or after any
\* Response when exactly 48 have; before that the decoder keeps acquiring.
C1_FrameLength ==
    [][lastframe.kind # "none" =>
          /\ (nframes' # nframes \/ (pc = "loop" /\ pc' = "ValueError"))
                => /\ bit_count' = LengthAfter(lastframe)
                   /\ Len(vector'.vlist) = LengthAfter(lastframe)
          /\ (current_state' = acquire /\ pc' = "loop")
                => bit_count' < LengthAfter(lastframe)]_vars

\* C1 witness: a third frame of 48 bits printed in a stream whose second
\* frame had 136 bits (so it followed CMD2, CMD9 or CMD10 and was an R2)
C1_Witness ==
    /\ FramePrinted /\ nframes = 3
    /\ Len(vector.vlist) = 48
    /\ line_count >= 2 + 2 * (48 + 136 + 48)

\* C2: a completed frame whose two top bits have value 1 is printed as a
\* Command with command_index = bits 45..40, argument = bits 39..8 and
\* crc7_and_stop = bits 7..0, whether it has 48 or 136 bits, and its
\* command index becomes the previous command index.  The classification of
\* such a frame fails only when an element of the vector is not a bit.
C2_Command ==
    /\ (FramePrinted /\ TopValue = 1)
          => /\ printed[1].kind = "Command"
             /\ printed[1].cmd_idx = Number(Range(vector.vlist, 45, 40))
             /\ printed[1].argument = Numeral(Range(vector.vlist, 39, 8))
             /\ printed[1].crc7_stop = Number(Range(vector.vlist, 7, 0))
             /\ current_cmd_idx = Number(Range(vector.vlist, 45, 40))
    /\ (ClassificationFailed /\ TopValue = 1) => ~AllBits(vector.vlist)

\* C2 witness: a 136-bit Command with a non-zero index has been printed
C2_Witness ==
    /\ FramePrinted /\ printed[1].kind = "Command"
    /\ Len(vector.vlist) = 136 /\ current_cmd_idx = 2

\* C3: a completed 48-bit frame whose two top bits have value 0 is printed as
\* exactly one record: R3 when bits 45..40 are 63, R6 when they are 3, with
\* new_rca = bits 39..24 and card_status = bits 23..8, and R1 otherwise.
C3_ShortResponse ==
    /\ (FramePrinted /\ Len(vector.vlist) = 48 /\ TopValue = 0)
          => /\ Len(printed) = 1
             /\ printed[1].kind =
                  (IF Number(Range(vector.vlist, 45, 40)) = 63 THEN "R3"
                   ELSE IF Number(Range(vector.vlist, 45, 40)) = 3 THEN "R6"
                   ELSE "R1")
             /\ printed[1].kind = "R6"
                  => /\ printed[1].new_rca = Number(Range(vector.vlist, 39, 24))
                     /\ printed[1].card_status = Number(Range(vector.vlist, 23, 8))
    /\ (ClassificationFailed /\ Len(vector.vlist) = 48 /\ TopValue = 0)
          => ~AllBits(vector.vlist)

\* C3 witness: an R6 whose two 16-bit fields differ has been printed
C3_Witness ==
    /\ FramePrinted /\ printed[1].kind = "R6" /\ printed[1].start = 0
    /\ printed[1].new_rca = 4660 /\ printed[1].card_status = 1312

\* C4: a completed 136-bit frame whose two top bits have value 0 is printed as
\* R2 whatever its other bits are, with start_and_transfer = bits 135..134,
\* reserved = bits 133..128 and cid_or_csd = bits 127..0.
C4_LongResponse ==
    /\ (FramePrinted /\ Len(vector.vlist) = 136 /\ TopValue = 0)
          => /\ printed[1].kind = "R2"
             /\ printed[1].start = Number(Range(vector.vlist, 135, 134))
             /\ printed[1].cmd_idx = Number(Range(vector.vlist, 133, 128))
             /\ printed[1].cid_csr = Numeral(Range(vector.vlist, 127, 0))
    /\ (ClassificationFailed /\ Len(vector.vlist) = 136 /\ TopValue = 0)
          => ~AllBits(vector.vlist)

\* C4 witness: an R2 whose bits 133..128 are 3 and bits 45..40 are 63
C4_Witness ==
    /\ FramePrinted /\ printed[1].kind = "R2" /\ printed[1].cmd_idx = 3
    /\ Number(Range(vector.vlist, 45, 40)) = 63

\* C5: the end-to-end scenario makes the decoder print exactly one Command,
\* with command_index 6 and argument 0, and leaves it in Idle.
C5_EndToEnd ==
    /\ FramePrinted
         => /\ printed[1].kind = "Command"
            /\ printed[1].cmd_idx = 6
            /\ printed[1].argument = <<>>
    /\ pc # "loop" => (pc = "done" /\ nframes = 1 /\ current_state = idle)

\* C6: on a stream of in-domain rows no iteration aborts.
C6_NoAbort == badrows = 0 => pc \in {"loop", "done"}

\* C7: when the stream ends while the decoder is in Acquiring, it reports
\* TruncatedFrameAtEndOfStream.
C7_TruncatedReported ==
    (pc = "done" /\ current_state = acquire)
        => (printed # <<>> /\ printed[1].kind = "TruncatedFrameAtEndOfStream")

\* C8: a frame is printed only by a row read in Acquiring whose latched bit
\* brings the bit counter to the target length; then exactly one frame is
\* printed, its vector has exactly the target number of bits (48 or 136) and
\* the decoder is in Idle after the row.  No other row prints a frame.
C8_EmissionOnCompletion ==
    [][(FramePrinted' \/ nframes' # nframes) =>
          /\ current_state = acquire
          /\ vector'.vlist = Append(vector.vlist, row'[2])
          /\ bit_count' = bit_count + 1
          /\ bit_count' = (IF current_cmd_idx \in {2, 9, 10} THEN 136 ELSE 48)
          /\ Len(vector'.vlist) = bit_count'
          /\ Len(printed') = 1 /\ FramePrinted'
          /\ nframes' = nframes + 1
          /\ current_state' = idle]_vars

\* C8 witness: a frame has just been printed and the decoder is in Idle
C8_Witness == FramePrinted /\ nframes = 2 /\ current_state = idle /\ bit_count = 136

\* C9: a Command is rendered ACMD<n> exactly when the previous command index
\* is 55 when the frame completes, and CMD<n> otherwise; n is bits 45..40 of
\* the frame in both renderings.
C9_AcmdRendering ==
    [][(FramePrinted' /\ printed'[1].kind = "Command") =>
          /\ printed'[1].label = (IF current_cmd_idx = 55 THEN "ACMD" ELSE "CMD")
          /\ printed'[1].cmd_idx = Number(Range(vector'.vlist, 45, 40))]_vars

\* C9 witness: CMD55 followed immediately by a Command of index 41, printed
\* as ACMD41
C9_Witness ==
    /\ FramePrinted /\ nframes = 2
    /\ printed[1].kind = "Command" /\ printed[1].label = "ACMD"
    /\ printed[1].cmd_idx = 41

\* C10: a row whose clk or cmd value is outside {0, 1} is rejected and leaves
\* the decoder state (state, previous clock and command bits, accumulator, bit
\* counter, previous command index) as it was.
C10_MalformedRejected ==
    [][badrows' # badrows =>
          /\ pc' = "loop"
          /\ UNCHANGED <<current_state, last_clk, last_cmd, vector, current_cmd_idx>>
          /\ bit_count' = bit_count \/ bit_count = Unbound]_vars

\* the iteration just finished printed the clock rate
RatePrinted == printed # <<>> /\ printed[1].kind = "ClockRate"

\* C17: whenever a clock rate is printed it is the rate computed at the last
\* rising clock edge and it differs from the clock rate printed before it,
\* so no two consecutive clock-rate lines carry the same frequency.
C17_Deduplication ==
    [][RatePrinted' =>
          /\ printed'[1].freq = clock_freq'
          /\ notes = <<>> \/ printed'[1].freq # notes[1]]_vars

\* C17 witness: a clock rate printed at the start of a later frame, after the
\* one printed at the start of the first
C17_Witness == RatePrinted /\ nframes >= 1 /\ notes # <<>>

\* C18: every frame printed as a response (R1, R3, R6 or R2) has
\* start_and_transfer 0: the first two bits latched are both 0.
C18_ResponseDirection ==
    (FramePrinted /\ printed[1].kind \in {"R1", "R3", "R6", "R2"})
        => (printed[1].start = 0 /\ TopValue = 0)

\* C19: a row read in Idle moves the decoder to Acquiring exactly when the
\* command cell of the row before it is 1 and its own is 0; the decoder then
\* holds an empty vector and a bit counter of 0, whatever the clock cells
\* are, so the row itself latches no bit.
C19_FrameStart ==
    [][(pc = "loop" /\ current_state = idle /\ pc' # "done") =>
          /\ current_state' = acquire <=> (PrevCmd = 1 /\ row'[2] = 0)
          /\ current_state' = acquire
                => (vector'.vlist = <<>> /\ bit_count' = 0)]_vars

\* C19 witness: a frame after the first has been started by a row that also
\* shows a rising clock edge, and nothing has been latched
C19_Witness ==
    /\ pc = "loop" /\ current_state = acquire /\ nframes >= 1
    /\ row = <<1, 0>> /\ last_clk_edge_line = line_count - 1
    /\ vector.vlist = <<>> /\ bit_count = 0

\* C20: while a frame is acquired the vector holds exactly the command cells
\* of the rows that showed a rising clock edge (clock cell 0 in the row
\* before, 1 in the row) since the row that started the frame, that row
\* excluded, in order; a printed frame holds the first N of them, N its
\* target length, the first one being bit N-1, the top bit of raw.
C20_BitLatching ==
    /\ (pc = "loop" /\ current_state = acquire) => vector.vlist = samples
    /\ FramePrinted
          => /\ vector.vlist = samples
             /\ Len(samples) = max_bit /\ max_bit \in {48, 136}
             /\ BitAt(vector.vlist, max_bit - 1) = samples[1]
             /\ printed[1].raw = Numeral(samples)

\* C20 witness: a 136-bit frame printed after two rows for each bit
C20_Witness ==
    /\ FramePrinted /\ Len(samples) = 136 /\ nframes = 2
    /\ samples[3] = 1 /\ samples[136] = 1
    /\ line_count >= 2 + 2 * (48 + 136)

\* C21: the previous command index changes only in a row that prints a frame:
\* a Command sets it to bits 45..40 of the frame and an R2 sets it to 0; a
\* row that prints R1, R3 or R6 and a row that prints no frame leave it as
\* it was, so every row of one acquisition computes the same target length.
C21_IndexFrame ==
    [][/\ current_cmd_idx' =
             (IF nframes' # nframes /\ printed'[1].kind = "Command"
              THEN Number(Range(vector'.vlist, 45, 40))
              ELSE IF nframes' # nframes /\ printed'[1].kind = "R2" THEN 0
              ELSE current_cmd_idx)
       /\ (current_state = acquire /\ pc = "loop" /\ pc' \in {"loop", "ValueError"})
             => max_bit' = (IF current_cmd_idx \in {2, 9, 10} THEN 136 ELSE 48)]_vars

\* C21 witness: a short response with an index of its own has been printed
\* and the previous command index is still the one of the Command before it
C21_Witness ==
    /\ FramePrinted /\ printed[1].kind \in {"R1", "R3", "R6"}
    /\ current_cmd_idx # 0 /\ current_cmd_idx # printed[1].cmd_idx
    /\ lastframe.cmd_idx = printed[1].cmd_idx

\* C23: in every row, in Idle and in Acquiring, the four edge flags the
\* iteration computes are those of the row's cells against the cells of the
\* row before it (rising: 0 then 1, falling: 1 then 0), clock 0 and command
\* 1 standing for the row before the first; so the edges detected depend on
\* the sequence of (clock, command) cells only, not on the frames decoded.
C23_EdgeDetection ==
    [][(pc = "loop" /\ pc' # "done") =>
          /\ rising_edge_clk(row'[1]) <=> (PrevClk = 0 /\ row'[1] = 1)
          /\ falling_edge_clk(row'[1]) <=> (PrevClk = 1 /\ row'[1] = 0)
          /\ rising_edge_cmd(row'[2]) <=> (PrevCmd = 0 /\ row'[2] = 1)
          /\ falling_edge_cmd(row'[2]) <=> (PrevCmd = 1 /\ row'[2] = 0)]_vars

\* C23 witness: during the second frame a row has shown a rising edge of the
\* clock and of the command line at once
C23_Witness ==
    /\ pc = "loop" /\ current_state = acquire /\ nframes = 1
    /\ row = <<1, 1>> /\ last_clk_edge_line = line_count - 1
    /\ bit_count >= 2 /\ vector.vlist[bit_count - 1] = 0

\* C24: a row read in Acquiring that shows no rising clock edge leaves the
\* state, the vector, the bit counter and the previous command index as they
\* were, whatever its command cell is; no row read in Acquiring empties or
\* replaces the vector (it is kept or gets one bit more), and the decoder
\* leaves Acquiring only in a row that prints the complete frame.
C24_NotRestartable ==
    [][(pc = "loop" /\ current_state = acquire /\ pc' # "done") =>
          /\ ~(PrevClk = 0 /\ row'[1] = 1)
                => /\ pc' = "loop"
                   /\ UNCHANGED <<current_state, vector, bit_count, current_cmd_idx>>
          /\ vector'.vlist \in {vector.vlist, Append(vector.vlist, row'[2])}
          /\ bit_count' \in {bit_count, bit_count + 1}
          /\ current_state' # acquire
                => /\ current_state' = idle
                   /\ nframes' = nframes + 1 /\ FramePrinted'
                   /\ Len(vector'.vlist) =
                          (IF current_cmd_idx \in {2, 9, 10} THEN 136 ELSE 48)]_vars

\* C24 witness: during a frame the command line has fallen on a row with a
\* falling clock edge, and the frame goes on
C24_Witness ==
    /\ pc = "loop" /\ current_state = acquire /\ slack = 1
    /\ row = <<0, 0>> /\ bit_count >= 1
    /\ Len(vector.vlist) = bit_count /\ vector.vlist[bit_count] = 1

\* C25: whenever a row is about to be read in Acquiring, the vector has as
\* many elements as the bit counter says, and the counter is at least 0 and
\* below the target length; when a frame is classified (printed, or the
\* classification raises) the vector has exactly the target length, 48 or
\* 136, so every slice bound the classification uses is within
\* [0, length - 1].
C25_Accumulator ==
    /\ (pc = "loop" /\ current_state = acquire)
          => /\ Len(vector.vlist) = bit_count
             /\ 0 <= bit_count
             /\ bit_count < (IF current_cmd_idx \in {2, 9, 10} THEN 136 ELSE 48)
    /\ (FramePrinted \/ ClassificationFailed)
          => /\ Len(vector.vlist) = max_bit /\ max_bit \in {48, 136}
             /\ bit_count = max_bit
             /\ FramePrinted /\ printed[1].kind = "R2" => Len(vector.vlist) - 1 = 135
             /\ 45 <= Len(vector.vlist) - 1 /\ 0 <= Len(vector.vlist) - 2

\* C25 witness: one bit is missing from a 136-bit frame
C25_Witness ==
    /\ pc = "loop" /\ current_state = acquire
    /\ bit_count = 135 /\ Len(vector.vlist) = 135

\* C26: whenever the next row can show a rising clock edge (the clock cell
\* of the row before it is 0, or there is no row before it), the count the
\* rate is computed from, the line number of the next row minus the stored
\* line of the last rising edge, is at least 2; so no rate computed is above
\* the one of a count of 2 and the division is never by zero.
C26_EdgeSpacing ==
    /\ pc # "ZeroDivisionError"
    /\ (pc = "loop" /\ PrevClk = 0) => line_count - last_clk_edge_line >= 2
    /\ clock_freq # Unbound => clock_freq * (2 * SampleRate) <= 1000000000

\* C26 witness: a rising clock edge three lines after the one before it
C26_Witness ==
    /\ pc = "loop" /\ row # <<>> /\ row[1] = 1
    /\ last_clk_edge_line = line_count - 1 /\ line_count > 5
    /\ clock_freq = 1000000000 \div (3 * SampleRate)

\* C27: what a row does to the decoder (its state, the frame and the clock
\* rate it prints) is the same for every data nibble 0..15 the row can
\* carry; so two streams with the same clock and command cells take the
\* decoder through the same states and print the same frames and rates.
C27_DataIndependence ==
    [][(pc = "loop" /\ pc' # "done") =>
          \A data \in DataValues : Iteration(row'[1], row'[2], data)]_vars

\* C27 witness: the scenario's rows, with their data nibbles, have printed a
\* clock rate and the Command
C27_Witness ==
    /\ FramePrinted /\ printed[1].kind = "Command" /\ nframes = 1
    /\ notes # <<>> /\ Len(samples) = 48

\* the w bits of a printed number n, most significant first (no list when n
\* does not fit in w bits)
Narrow(n, w) == IF n >= 2 ^ w THEN <<>> ELSE Bits(n, w)

\* the w bits of a printed numeral, most significant first (no list when it
\* has more than w digits)
Wide(numeral, w) ==
    IF Len(numeral) > w THEN <<>>
    ELSE Fill(0, w - Len(numeral))
             \o [k \in 1..Len(numeral) |-> IF numeral[k] = "1" THEN 1 ELSE 0]

\* C28: the fields printed for a 48-bit frame (2 + 6 + 32 + 8 bits for a
\* Command, R1 or R3, 2 + 6 + 16 + 16 + 8 bits for an R6) and for an R2
\* (2 + 6 + 128 bits), written one after the other from the highest bit
\* range to the lowest, are the bits of the frame, each bit once, and raw is
\* the number these bits denote.
C28_FieldPartition ==
    FramePrinted =>
        LET f == printed[1]
            bits == vector.vlist
        IN  /\ f.raw = Numeral(bits)
            /\ (Len(bits) = 48 /\ f.kind \in {"Command", "R1", "R3"})
                  => bits = Narrow(f.start, 2) \o Narrow(f.cmd_idx, 6)
                                \o Wide(f.argument, 32) \o Narrow(f.crc7_stop, 8)
            /\ (Len(bits) = 48 /\ f.kind = "R6")
                  => bits = Narrow(f.start, 2) \o Narrow(f.cmd_idx, 6)
                                \o Narrow(f.new_rca, 16) \o Narrow(f.card_status, 16)
                                \o Narrow(f.crc7_stop, 8)
            /\ f.kind = "R2"
                  => bits = Narrow(f.start, 2) \o Narrow(f.cmd_idx, 6)
                                \o Wide(f.cid_csr, 128)

\* C28 witness: an R1 whose argument and crc7 + stop fields are not 0
C28_Witness ==
    /\ FramePrinted /\ printed[1].kind = "R1"
    /\ printed[1].argument # <<>> /\ printed[1].crc7_stop = 131

(***************************************************************************)
(* The properties of the calls on a BitVector (SpecVector).                *)
(***************************************************************************)
\* slice(high, low) was the last call, with an index range inside the vector
ValidSlice ==
    /\ call.op = "slice"
    /\ 0 <= call.args[2] /\ call.args[2] <= call.args[1]
    /\ call.args[1] <= Len(obj.vlist) - 1

\* C11: append of a value other than 0 and 1 raises and leaves the vector as
\* it was, so every element of the vector is 0 or 1 after any appends.
C11_AppendValidates ==
    /\ AllBits(obj.vlist)
    /\ (call.op = "append" /\ call.args[1] \notin Bit) => result = Raised

\* C12: the constructor raises exactly when some element of the list it is
\* given is not 0 or 1, whatever the position of that element, and otherwise
\* returns a vector of these elements in this order.
C12_Construction ==
    call.op = "new" =>
        IF AllBits(call.args[1])
        THEN /\ result.kind = "vector"
             /\ result.val.vlist = call.args[1]
             /\ obj = result.val
        ELSE result = Raised

\* C12 witness: the constructor raised on a list whose last element only is
\* not a bit
C12_Witness ==
    /\ call.op = "new" /\ result = Raised
    /\ Len(call.args[1]) = MaxLen
    /\ call.args[1][MaxLen] = BadBit
    /\ AllBits(SubSeq(call.args[1], 1, MaxLen - 1))

\* C13: slice(high, low) with high < low or with an index outside
\* [0, length - 1] returns no vector.
C13_SliceRange ==
    (call.op = "slice" /\ ~ValidSlice) => result.kind # "vector"

\* C14: on a vector with downto = true, slice(high, low) with
\* 0 <= low <= high <= length - 1 returns a vector of high - low + 1
\* elements; it raises only when an element of the vector is not a bit.
C14_SliceLength ==
    (ValidSlice /\ obj.downto) =>
        /\ result.kind = "vector"
              => Len(result.val.vlist) = call.args[1] - call.args[2] + 1
        /\ result = Raised => ~AllBits(obj.vlist)

\* C14 witness: two inner bits sliced out of a vector of four
C14_Witness ==
    /\ ValidSlice /\ obj.downto /\ Len(obj.vlist) = 4
    /\ call.args = <<2, 1>> /\ result.kind = "vector"

\* C15 as stated: on every non-empty vector of bits, of either orientation,
\* slice(length - 1, 0) returns the bits of the vector in the same order,
\* and so the same value.
C15_FullSliceAny ==
    (call.op = "slice" /\ Len(obj.vlist) >= 1 /\ AllBits(obj.vlist)
         /\ call.args = <<Len(obj.vlist) - 1, 0>>)
        => /\ result.kind = "vector"
           /\ result.val.vlist = obj.vlist
           /\ value(result.val) = value(obj)

\* C15 amended: on every non-empty vector of bits with downto = true, and on
\* every vector of one bit, slice(length - 1, 0) returns the bits of the
\* vector in the same order, and so the same value.
C15_FullSlice ==
    (call.op = "slice" /\ Len(obj.vlist) >= 1 /\ AllBits(obj.vlist)
         /\ call.args = <<Len(obj.vlist) - 1, 0>>
         /\ (obj.downto \/ Len(obj.vlist) = 1))
        => /\ result.kind = "vector"
           /\ result.val.vlist = obj.vlist
           /\ value(result.val) = value(obj)

\* C15 witness: the full slice of a downto vector of several bits, not all
\* equal
C15_Witness ==
    /\ call.op = "slice" /\ obj.downto /\ AllBits(obj.vlist)
    /\ Len(obj.vlist) = MaxLen /\ call.args = <<MaxLen - 1, 0>>
    /\ obj.vlist[1] = 1 /\ obj.vlist[MaxLen] = 0
    /\ result.kind = "vector"

\* C16: from_int(n) of an integer n >= 0 returns the vector of the shortest
\* binary numeral of n, most significant bit first (first bit 1 when n > 0,
\* the one-bit vector 0 when n = 0), whose value is n.
C16_RoundTrip ==
    (call.op = "from_int" /\ call.args[1] >= 0) =>
        /\ result.kind = "vector"
        /\ obj = result.val
        /\ ~ValueRaises(result.val)
        /\ value(result.val) = call.args[1]
        /\ call.args[1] > 0 => result.val.vlist[1] = 1
        /\ call.args[1] = 0 => result.val.vlist = <<0>>

\* C16 witness: from_int of an integer whose numeral is no palindrome
C16_Witness ==
    /\ call.op = "from_int" /\ call.args[1] = 6
    /\ result.kind = "vector" /\ result.val.vlist = <<1, 1, 0>>

\* C22: on a vector with downto = true that holds e[0..L-1] in append order,
\* slice(high, low) with 0 <= low <= high <= L-1 returns a vector with
\* downto = true that holds e[L-1-high] .. e[L-1-low] in that order: bit
\* index i is list position L-1-i and index 0 is the last bit appended.  It
\* raises only when one of these elements is not a bit.
C22_DowntoMapping ==
    (ValidSlice /\ obj.downto) =>
        LET L == Len(obj.vlist)
            high == call.args[1]
            low == call.args[2]
            asked == [k \in 1..(high - low + 1) |-> obj.vlist[(L - 1 - high) + k]]
        IN  IF AllBits(asked)
            THEN /\ result.kind = "vector"
                 /\ result.val.downto
                 /\ result.val.vlist = asked
            ELSE result = Raised

\* C22 witness: index 0 of a vector of three bits is the last bit appended
C22_Witness ==
    /\ ValidSlice /\ obj.downto /\ obj.vlist = <<1, 1, 0>>
    /\ call.args = <<0, 0>>
    /\ result.kind = "vector" /\ result.val.vlist = <<0>>

====
